---------------------------- MODULE Spec2Model ----------------------------
(***************************************************************************)
(* Model of src/index.js: the SQLite -> PostgreSQL migration script.       *)
(*                                                                         *)
(*  - JavaScript values are records [t, b, m, e, s] (see the constructors  *)
(*    below); a finite number is the exact decimal m * 10^e, normalised so *)
(*    that m carries no trailing zero.  Within the bounds of the inputs    *)
(*    (at most nine significant digits) a double and its shortest decimal  *)
(*    form denote the same value, so Number(), Math.trunc and String()     *)
(*    are computed on the decimal form.  Negative zero is identified with  *)
(*    zero, as === does.                                                   *)
(*  - Strings are TLA+ strings, read one character at a time.              *)
(***************************************************************************)
EXTENDS Integers, Sequences, FiniteSets, TLC

VARIABLES
    \* ---- configuration (src/index.js 32-40)
    ADD_FOREIGN_KEYS,
    DEBUG_ON_ERROR,
    BATCH_SIZE,
    TREAT_EMPTY_STRING_AS_NULL,
    \* ---- the two databases
    src,          \* the source, read-only: [tables, rows, types, indexes, fks]
    pg,           \* the destination: [tables, rows, indexes, constraints]
    \* ---- the process
    pc,           \* the await main() is suspended at, or "returned" / "thrown" / "caught"
    ti,           \* index of the current table in the current loop of main
    tableMeta,    \* the Map tableMeta: table name -> typesByCol
    cp,           \* locals of copyTableData: [total, meta, offset, rows, coerced, i, e]
    fkGroups,     \* locals of addForeignKeysForTable: ids of byId still to be issued
    err,          \* the error in flight
    exitCode,     \* process.exitCode
    \* ---- history of the run (what happened, for the properties)
    log,
    \* ---- sanitizer harness (one cell / one row through the sanitizers)
    sStage,       \* "idle", or "in" -> "row" -> "once" -> "twice"
    sVal,         \* the raw cell value
    sKind,        \* its column's DestinationTypeClass, or "absent"
    sParses,      \* whether the engine's Date.parse accepts a non-blank string
    sOut,         \* sanitizer applied once
    sOut2,        \* sanitizer applied to its own result
    sRow,         \* a source row holding the cell
    sCoerced,     \* the row after copyTableData's per-row coercion
    \* ---- classifier harness
    cStage,       \* "idle", or "in" -> "done"
    cType,        \* the type describeTable reports for a column
    cClass        \* classifyPgType of it

cfgVars == <<ADD_FOREIGN_KEYS, DEBUG_ON_ERROR, BATCH_SIZE, TREAT_EMPTY_STRING_AS_NULL>>
runVars == <<src, pg, pc, ti, tableMeta, cp, fkGroups, err, exitCode, log>>
sanVars == <<sStage, sVal, sKind, sParses, sOut, sOut2, sRow, sCoerced>>
clsVars == <<cStage, cType, cClass>>
vars == <<cfgVars, runVars, sanVars, clsVars>>

-----------------------------------------------------------------------------
(* Bounds *)

\* longest string enumerated exhaustively over Alphabet
MaxLen == 3
\* number inputs are m * 10^e with |e| <= MaxPow10
MaxPow10 == 22
\* most marker words concatenated into a destination type name
MaxWords == 2
\* most tables selected for migration
MaxTables == 2
\* most rows in a source table
MaxRows == 3
\* largest page size
MaxBatch == 2
\* most rows PRAGMA foreign_key_list returns for the table under test
MaxFkRows == 3

-----------------------------------------------------------------------------
(* Characters and strings *)

Char(s, i) == SubSeq(s, i, i)

DigitChars == "0123456789"
HexChars == "0123456789abcdef"
UpperChars == "ABCDEFGHIJKLMNOPQRSTUVWXYZ"
LowerChars == "abcdefghijklmnopqrstuvwxyz"

IndexIn(c, chars) ==
    IF \E i \in 1..Len(chars) : Char(chars, i) = c
    THEN CHOOSE i \in 1..Len(chars) : Char(chars, i) = c
    ELSE 0

IsDigitChar(c) == IndexIn(c, DigitChars) > 0

\* the characters String.prototype.trim and Number() strip
IsSpaceChar(c) == c \in {" ", "\t", "\n", "\r"}

LowerChar(c) ==
    IF IndexIn(c, UpperChars) > 0
    THEN Char(LowerChars, IndexIn(c, UpperChars))
    ELSE c

RECURSIVE toLowerCase(_)
toLowerCase(s) ==
    IF s = "" THEN "" ELSE LowerChar(Char(s, 1)) \o toLowerCase(SubSeq(s, 2, Len(s)))

RECURSIVE TrimLeft(_)
TrimLeft(s) ==
    IF s # "" /\ IsSpaceChar(Char(s, 1)) THEN TrimLeft(SubSeq(s, 2, Len(s))) ELSE s

RECURSIVE TrimRight(_)
TrimRight(s) ==
    IF s # "" /\ IsSpaceChar(Char(s, Len(s)))
    THEN TrimRight(SubSeq(s, 1, Len(s) - 1))
    ELSE s

trim(s) == TrimRight(TrimLeft(s))

\* String.prototype.includes
includes(s, sub) ==
    \E i \in 1..(Len(s) - Len(sub) + 1) : SubSeq(s, i, i + Len(sub) - 1) = sub

\* String.prototype.startsWith
startsWith(s, p) == Len(s) >= Len(p) /\ SubSeq(s, 1, Len(p)) = p

\* position of the first character of s that is in cs, 0 when there is none
FirstOf(s, cs) ==
    IF \E i \in 1..Len(s) : Char(s, i) \in cs
    THEN CHOOSE i \in 1..Len(s) :
            Char(s, i) \in cs /\ \A j \in 1..(i - 1) : Char(s, j) \notin cs
    ELSE 0

AllDigits(s) == \A i \in 1..Len(s) : IsDigitChar(Char(s, i))

\* \d+
IsDigits(s) == s # "" /\ AllDigits(s)

RECURSIVE Repeat(_, _)
Repeat(c, n) == IF n <= 0 THEN "" ELSE c \o Repeat(c, n - 1)

-----------------------------------------------------------------------------
(* Exact decimals  m * 10^e *)

RECURSIVE Pow10(_)
Pow10(n) == IF n <= 0 THEN 1 ELSE 10 * Pow10(n - 1)

Abs(n) == IF n < 0 THEN 0 - n ELSE n
Sign(n) == IF n < 0 THEN 0 - 1 ELSE IF n > 0 THEN 1 ELSE 0

RECURSIVE NumDigits(_)
NumDigits(n) == IF Abs(n) < 10 THEN 1 ELSE 1 + NumDigits(Abs(n) \div 10)

RECURSIVE Norm(_, _)
Norm(m, e) ==
    IF m = 0 THEN [m |-> 0, e |-> 0]
    ELSE IF Abs(m) % 10 = 0 THEN Norm(Sign(m) * (Abs(m) \div 10), e + 1)
    ELSE [m |-> m, e |-> e]

\* order of magnitude: 10^(Mag-1) <= |d| < 10^Mag
Mag(d) == NumDigits(d.m) + d.e

\* -1, 0, 1 as a < b, a = b, a > b (comparison of two non-negative decimals)
CmpPos(a, b) ==
    IF a.m = 0 \/ b.m = 0 THEN Sign(a.m - b.m)
    ELSE IF Mag(a) # Mag(b) THEN Sign(Mag(a) - Mag(b))
    ELSE LET e0 == IF a.e < b.e THEN a.e ELSE b.e
         IN Sign(a.m * Pow10(a.e - e0) - b.m * Pow10(b.e - e0))

DecCmp(a, b) ==
    IF Sign(a.m) # Sign(b.m) THEN Sign(Sign(a.m) - Sign(b.m))
    ELSE IF a.m >= 0 THEN CmpPos(a, b)
    ELSE CmpPos([m |-> 0 - b.m, e |-> b.e], [m |-> 0 - a.m, e |-> a.e])

\* Math.trunc / ToIntegerOrInfinity on a finite decimal
DecTrunc(d) ==
    IF d.e >= 0 THEN d
    ELSE IF 0 - d.e >= NumDigits(d.m) THEN Norm(0, 0)
    ELSE Norm(Sign(d.m) * (Abs(d.m) \div Pow10(0 - d.e)), 0)


-----------------------------------------------------------------------------
(* JavaScript values *)

Val(t, b, m, e, s) == [t |-> t, b |-> b, m |-> m, e |-> e, s |-> s]

Null == Val("null", FALSE, 0, 0, "")
Undefined == Val("undefined", FALSE, 0, 0, "")
Bool(b) == Val("boolean", b, 0, 0, "")
Str(s) == Val("string", FALSE, 0, 0, s)
\* a finite number; s tells finite numbers from NaN and the infinities
NumD(d) == Val("number", TRUE, d.m, d.e, "finite")
Num(m, e) == NumD(Norm(m, e))
NaN == Val("number", FALSE, 0, 0, "NaN")
PosInf == Val("number", FALSE, 1, 0, "Infinity")
NegInf == Val("number", FALSE, 0 - 1, 0, "Infinity")
\* a Date holding the time value d (milliseconds since the epoch)
DateMs(d) == Val("date", TRUE, d.m, d.e, "")
\* a Date the engine parsed out of the string s
DateParsed(s) == Val("date", TRUE, 0, 0, s)
InvalidDate == Val("date", FALSE, 0, 0, "")

DecOf(v) == [m |-> v.m, e |-> v.e]
IsFinite(v) == v.t = "number" /\ v.s = "finite"
\* val == null
IsNullish(v) == v.t \in {"null", "undefined"}

\* a >= b and a < b on numbers, as JavaScript compares them (false on NaN)
NumGE(a, b) ==
    /\ a.s # "NaN" /\ b.s # "NaN"
    /\ IF IsFinite(a) /\ IsFinite(b) THEN DecCmp(DecOf(a), DecOf(b)) >= 0
       ELSE IF IsFinite(a) THEN b.m < 0
       ELSE IF IsFinite(b) THEN a.m > 0
       ELSE a.m >= b.m

NumLT(a, b) ==
    /\ a.s # "NaN" /\ b.s # "NaN"
    /\ ~NumGE(a, b)

-----------------------------------------------------------------------------
(* Number(string): StringToNumber *)

RECURSIVE DigitsToInt(_, _)
DigitsToInt(s, radix) ==
    IF s = "" THEN 0
    ELSE DigitsToInt(SubSeq(s, 1, Len(s) - 1), radix) * radix
            + (IndexIn(LowerChar(Char(s, Len(s))), HexChars) - 1)

RECURSIVE StripLeadingZeros(_)
StripLeadingZeros(s) ==
    IF s # "" /\ Char(s, 1) = "0" THEN StripLeadingZeros(SubSeq(s, 2, Len(s))) ELSE s

RECURSIVE StripTrailingZeros(_)
StripTrailingZeros(s) ==
    IF s # "" /\ Char(s, Len(s)) = "0"
    THEN StripTrailingZeros(SubSeq(s, 1, Len(s) - 1))
    ELSE s

\* the largest double is 1.7976931348623157e308, the smallest 5e-324
Overflows(d) ==
    \/ Mag(d) > 309
    \/ Mag(d) = 309 /\ NumDigits(d.m) <= 9
                    /\ Abs(d.m) * Pow10(9 - NumDigits(d.m)) > 179769313

Underflows(d) == d.m # 0 /\ Mag(d) < 0 - 323

\* the number a sign, a digit string and a decimal exponent denote
FromDigits(neg, digits, exp) ==
    LET sig == StripTrailingZeros(StripLeadingZeros(digits))
        zeros == Len(StripLeadingZeros(digits)) - Len(sig)
        d == IF sig = "" THEN Norm(0, 0)
             ELSE [m |-> (IF neg THEN 0 - 1 ELSE 1) * DigitsToInt(sig, 10),
                   e |-> exp + zeros]
    IN IF Overflows(d) THEN (IF neg THEN NegInf ELSE PosInf)
       ELSE IF Underflows(d) THEN Num(0, 0)
       ELSE NumD(d)

\* [+-]? digits
IsSignedDigits(s) ==
    IF s # "" /\ Char(s, 1) \in {"+", "-"} THEN IsDigits(SubSeq(s, 2, Len(s)))
    ELSE IsDigits(s)

SignedDigitsVal(s) ==
    IF Char(s, 1) = "-" THEN 0 - DigitsToInt(SubSeq(s, 2, Len(s)), 10)
    ELSE IF Char(s, 1) = "+" THEN DigitsToInt(SubSeq(s, 2, Len(s)), 10)
    ELSE DigitsToInt(s, 10)

\* StrUnsignedDecimalLiteral without Infinity: digits [. digits] | . digits, then
\* an optional exponent
UnsignedDecimal(neg, u) ==
    LET ePos == FirstOf(u, {"e", "E"})
        mant == IF ePos = 0 THEN u ELSE SubSeq(u, 1, ePos - 1)
        expS == IF ePos = 0 THEN "" ELSE SubSeq(u, ePos + 1, Len(u))
        dot == FirstOf(mant, {"."})
        ip == IF dot = 0 THEN mant ELSE SubSeq(mant, 1, dot - 1)
        fp == IF dot = 0 THEN "" ELSE SubSeq(mant, dot + 1, Len(mant))
        ok == /\ AllDigits(ip) /\ AllDigits(fp)
              /\ ip \o fp # ""
              /\ ePos # 0 => IsSignedDigits(expS)
    IN IF ~ok THEN NaN
       ELSE FromDigits(neg, ip \o fp,
                       (IF ePos = 0 THEN 0 ELSE SignedDigitsVal(expS)) - Len(fp))

\* 0x / 0o / 0b literals (unsigned only)
RadixOf(c) ==
    IF LowerChar(c) = "x" THEN 16 ELSE IF LowerChar(c) = "o" THEN 8
    ELSE IF LowerChar(c) = "b" THEN 2 ELSE 0

IsNonDecimal(t) ==
    /\ Len(t) >= 3 /\ Char(t, 1) = "0" /\ RadixOf(Char(t, 2)) > 0
    /\ \A i \in 3..Len(t) :
          LET v == IndexIn(LowerChar(Char(t, i)), HexChars)
          IN v > 0 /\ v <= RadixOf(Char(t, 2))

ToNumberStr(s) ==
    LET t == trim(s)
        signed == t # "" /\ Char(t, 1) \in {"+", "-"}
        neg == t # "" /\ Char(t, 1) = "-"
        u == IF signed THEN SubSeq(t, 2, Len(t)) ELSE t
    IN IF t = "" THEN Num(0, 0)
       ELSE IF IsNonDecimal(t)
            THEN Num(DigitsToInt(SubSeq(t, 3, Len(t)), RadixOf(Char(t, 2))), 0)
       ELSE IF u = "Infinity" THEN (IF neg THEN NegInf ELSE PosInf)
       ELSE UnsignedDecimal(neg, u)

-----------------------------------------------------------------------------
(* String(value) *)

RECURSIVE IntToDigits(_)
IntToDigits(n) ==
    IF n < 10 THEN Char(DigitChars, n + 1)
    ELSE IntToDigits(n \div 10) \o Char(DigitChars, (n % 10) + 1)

\* Number::toString(10) of a finite number
NumToString(d) ==
    LET digs == IntToDigits(Abs(d.m))
        k == Len(digs)
        n == k + d.e
        sgn == IF d.m < 0 THEN "-" ELSE ""
    IN IF d.m = 0 THEN "0"
       ELSE IF k <= n /\ n <= 21 THEN sgn \o digs \o Repeat("0", n - k)
       ELSE IF 0 < n /\ n <= 21
            THEN sgn \o SubSeq(digs, 1, n) \o "." \o SubSeq(digs, n + 1, k)
       ELSE IF 0 - 6 < n /\ n <= 0 THEN sgn \o "0." \o Repeat("0", 0 - n) \o digs
       ELSE sgn \o Char(digs, 1)
                \o (IF k = 1 THEN "" ELSE "." \o SubSeq(digs, 2, k))
                \o "e" \o (IF n - 1 < 0 THEN "-" ELSE "+") \o IntToDigits(Abs(n - 1))

JsString(v) ==
    IF v.t = "string" THEN v.s
    ELSE IF v.t = "number"
         THEN (IF IsFinite(v) THEN NumToString(DecOf(v))
               ELSE IF v.s = "NaN" THEN "NaN"
               ELSE IF v.m < 0 THEN "-Infinity" ELSE "Infinity")
    ELSE IF v.t = "boolean" THEN (IF v.b THEN "true" ELSE "false")
    ELSE IF v.t = "date"
         THEN (IF v.b THEN "Thu Jan 01 1970 00:00:00 GMT+0000" ELSE "Invalid Date")
    ELSE v.t


-----------------------------------------------------------------------------
(* Sanitizers (src/index.js 114-188) *)

isAllDigitsStr(v) == v.t = "string" /\ Len(v.s) # 0 /\ AllDigits(v.s)

\* TimeClip: a time value beyond 8.64e15 ms is no date
MaxTime == [m |-> 864, e |-> 13]

\* ToNumber of the values the Date constructor is given here
ToNumber(v) ==
    IF v.t = "number" THEN v
    ELSE IF v.t = "boolean" THEN (IF v.b THEN Num(1, 0) ELSE Num(0, 0))
    ELSE IF v.t = "null" THEN Num(0, 0)
    ELSE NaN

\* new Date(v).  A string goes to Date.parse: a blank string is never a date; what
\* else it accepts beyond the ISO format is up to the engine (parses).
NewDate(v, parses) ==
    IF v.t = "date" THEN v
    ELSE IF v.t = "string"
         THEN (IF trim(v.s) # "" /\ parses THEN DateParsed(v.s) ELSE InvalidDate)
    ELSE LET n == ToNumber(v)
         IN IF ~IsFinite(n) THEN InvalidDate
            ELSE IF DecCmp(DecOf(n), MaxTime) > 0
                    \/ DecCmp(DecOf(n), [m |-> 0 - MaxTime.m, e |-> MaxTime.e]) < 0
                 THEN InvalidDate
            ELSE DateMs(DecTrunc(DecOf(n)))

MsEpochFrom == Num(1, 12)
SecEpochFrom == Num(1, 9)
SecEpochBelow == Num(5, 12)

Times1000(v) == Num(v.m, v.e + 3)

\* mutant: the seconds test is made before the milliseconds test
toJsDate_SecondsFirst(v0, parses) ==
    IF IsNullish(v0) \/ v0 = Str("") THEN Null
    ELSE IF v0.t = "date" THEN v0
    ELSE LET val == IF v0.t = "string" /\ isAllDigitsStr(v0) THEN ToNumberStr(v0.s)
                    ELSE v0
             d == NewDate(val, parses)
         IN IF val.t = "number" /\ val = Num(0, 0) THEN Null
            ELSE IF val.t = "number" /\ NumGE(val, SecEpochFrom)
                                     /\ NumLT(val, SecEpochBelow)
                 THEN NewDate(Times1000(val), parses)
            ELSE IF val.t = "number" /\ NumGE(val, MsEpochFrom) THEN NewDate(val, parses)
            ELSE IF ~d.b THEN Null ELSE d

toJsDate(v0, parses) ==
    IF IsNullish(v0) \/ v0 = Str("") THEN Null
    ELSE IF v0.t = "date" THEN v0
    ELSE LET val == IF v0.t = "string" /\ isAllDigitsStr(v0) THEN ToNumberStr(v0.s)
                    ELSE v0
             d == NewDate(val, parses)
         IN IF val.t = "number" /\ val = Num(0, 0) THEN Null
            ELSE IF val.t = "number" /\ NumGE(val, MsEpochFrom) THEN NewDate(val, parses)
            ELSE IF val.t = "number" /\ NumGE(val, SecEpochFrom)
                                     /\ NumLT(val, SecEpochBelow)
                 THEN NewDate(Times1000(val), parses)
            ELSE IF ~d.b THEN Null ELSE d

\* mutant: only the empty string is taken for empty (no trim)
emptyStringToNull_NoTrim(v, policy) ==
    IF ~policy THEN v
    ELSE IF IsNullish(v) THEN v
    ELSE IF v = Str("") THEN Null
    ELSE v

emptyStringToNull(v, policy) ==
    IF ~policy THEN v
    ELSE IF IsNullish(v) THEN v
    ELSE IF v.t = "string" /\ trim(v.s) = "" THEN Null
    ELSE v

toBoolean(v0, policy) ==
    LET val == emptyStringToNull(v0, policy)
        s == toLowerCase(trim(JsString(val)))
    IN IF IsNullish(val) THEN Null
       ELSE IF val.t = "boolean" THEN val
       ELSE IF val.t = "number" THEN Bool(val # Num(0, 0))
       ELSE IF s \in {"true", "t", "yes", "y", "1"} THEN Bool(TRUE)
       ELSE IF s \in {"false", "f", "no", "n", "0"} THEN Bool(FALSE)
       ELSE Null

\* Math.trunc
Trunc(n) == IF IsFinite(n) THEN NumD(DecTrunc(DecOf(n))) ELSE n

toIntOrNull(v0, policy) ==
    LET val == emptyStringToNull(v0, policy)
    IN IF IsNullish(val) THEN Null
       ELSE IF val.t = "string"
            THEN (LET n == ToNumberStr(val.s) IN IF IsFinite(n) THEN Trunc(n) ELSE Null)
       ELSE IF val.t = "number" THEN (IF IsFinite(val) THEN Trunc(val) ELSE Null)
       ELSE Null

toFloatOrNull(v0, policy) ==
    LET val == emptyStringToNull(v0, policy)
    IN IF IsNullish(val) THEN Null
       ELSE IF val.t = "string"
            THEN (LET n == ToNumberStr(val.s) IN IF IsFinite(n) THEN n ELSE Null)
       ELSE IF val.t = "number" THEN (IF IsFinite(val) THEN val ELSE Null)
       ELSE Null

\* /^-?\d+(\.\d+)?([eE][+-]?\d+)?$/
DecimalPattern(s) ==
    LET u == IF s # "" /\ Char(s, 1) = "-" THEN SubSeq(s, 2, Len(s)) ELSE s
        ePos == FirstOf(u, {"e", "E"})
        mant == IF ePos = 0 THEN u ELSE SubSeq(u, 1, ePos - 1)
        expS == IF ePos = 0 THEN "" ELSE SubSeq(u, ePos + 1, Len(u))
        dot == FirstOf(mant, {"."})
    IN /\ IF dot = 0 THEN IsDigits(mant)
          ELSE IsDigits(SubSeq(mant, 1, dot - 1)) /\ IsDigits(SubSeq(mant, dot + 1, Len(mant)))
       /\ ePos # 0 => IsSignedDigits(expS)

\* mutant: a decimal string is reparsed as a number and printed again
toDecimalStringOrNull_Reparse(v0, policy) ==
    LET val == emptyStringToNull(v0, policy)
    IN IF IsNullish(val) THEN Null
       ELSE IF val.t = "string"
            THEN (IF DecimalPattern(trim(val.s)) /\ IsFinite(ToNumberStr(val.s))
                  THEN Str(JsString(ToNumberStr(val.s))) ELSE Null)
       ELSE IF val.t = "number"
            THEN (IF ~IsFinite(val) THEN Null ELSE Str(JsString(val)))
       ELSE Null

toDecimalStringOrNull(v0, policy) ==
    LET val == emptyStringToNull(v0, policy)
    IN IF IsNullish(val) THEN Null
       ELSE IF val.t = "string"
            THEN (IF DecimalPattern(trim(val.s)) THEN Str(trim(val.s)) ELSE Null)
       ELSE IF val.t = "number"
            THEN (IF ~IsFinite(val) THEN Null ELSE Str(JsString(val)))
       ELSE Null

Classes == {"date", "boolean", "int", "float", "decimal"}

\* the branch of copyTableData's coercion loop for a column of class kind
sanitize(kind, v, policy, parses) ==
    IF kind = "date" THEN toJsDate(v, parses)
    ELSE IF kind = "boolean" THEN toBoolean(v, policy)
    ELSE IF kind = "int" THEN toIntOrNull(v, policy)
    ELSE IF kind = "float" THEN toFloatOrNull(v, policy)
    ELSE IF kind = "decimal" THEN toDecimalStringOrNull(v, policy)
    ELSE v

\* rows.map(...) of copyTableData for one row: out = {...row}, then every column of
\* typesByCol is overwritten (a column the row lacks reads undefined)
coerceRow(row, typesByCol, policy, parses) ==
    [col \in DOMAIN row \cup {c \in DOMAIN typesByCol : typesByCol[c] \in Classes} |->
        IF col \in DOMAIN typesByCol
        THEN sanitize(typesByCol[col],
                      IF col \in DOMAIN row THEN row[col] ELSE Undefined,
                      policy, parses)
        ELSE row[col]]


-----------------------------------------------------------------------------
(* Destination type classifier (src/index.js 190-199) *)

\* typeStr || ''
OrEmpty(v) == IF v.t = "string" THEN v.s ELSE ""

\* mutant: the 'int' test is made before the float and decimal tests
classifyPgType_IntFirst(typeStr) ==
    LET t == toLowerCase(OrEmpty(typeStr))
    IN IF includes(t, "timestamp") \/ t = "date" \/ startsWith(t, "time") THEN "date"
       ELSE IF includes(t, "boolean") THEN "boolean"
       ELSE IF includes(t, "int") THEN "int"
       ELSE IF includes(t, "double") \/ includes(t, "real") \/ includes(t, "float")
            THEN "float"
       ELSE IF includes(t, "numeric") \/ includes(t, "decimal") THEN "decimal"
       ELSE "other"

classifyPgType(typeStr) ==
    LET t == toLowerCase(OrEmpty(typeStr))
    IN IF includes(t, "timestamp") \/ t = "date" \/ startsWith(t, "time") THEN "date"
       ELSE IF includes(t, "boolean") THEN "boolean"
       ELSE IF includes(t, "double") \/ includes(t, "real") \/ includes(t, "float")
            THEN "float"
       ELSE IF includes(t, "numeric") \/ includes(t, "decimal") THEN "decimal"
       ELSE IF includes(t, "int") THEN "int"
       ELSE "other"

\* the loop over Object.entries(desc) in createPgTableFromSqlite
TypesByCol(desc) == [col \in DOMAIN desc |-> classifyPgType(desc[col])]

-----------------------------------------------------------------------------
(* Foreign keys (src/index.js 342-366) *)

FkRow(id, from, to, table, onUpdate, onDelete) ==
    [id |-> id, from |-> from, to |-> to, table |-> table,
     on_update |-> onUpdate, on_delete |-> onDelete]

\* String.prototype.replace(pattern, replacement) with a string pattern: the first
\* occurrence only
replace(s, pat, rep) ==
    IF includes(s, pat)
    THEN LET i == CHOOSE k \in 1..(Len(s) - Len(pat) + 1) :
                    /\ SubSeq(s, k, k + Len(pat) - 1) = pat
                    /\ \A j \in 1..(k - 1) : SubSeq(s, j, j + Len(pat) - 1) # pat
         IN SubSeq(s, 1, i - 1) \o rep \o SubSeq(s, i + Len(pat), Len(s))
    ELSE s

\* a || 'NO ACTION'
OrNoAction(a) == IF a.t = "string" /\ a.s # "" THEN a.s ELSE "NO ACTION"

\* mutant: the action is passed to the destination as the source gives it
NormalizeAction_PassThrough(a) == OrNoAction(a)

\* (a || 'NO ACTION').replace('RESTRICT', 'NO ACTION')
NormalizeAction(a) == replace(OrNoAction(a), "RESTRICT", "NO ACTION")

\* the keys of byId, in the order the Map holds them (first appearance)
RECURSIVE GroupIds(_)
GroupIds(fks) ==
    IF fks = <<>> THEN <<>>
    ELSE LET before == GroupIds(SubSeq(fks, 1, Len(fks) - 1))
             id == fks[Len(fks)].id
         IN IF \E k \in 1..Len(before) : before[k] = id THEN before
            ELSE Append(before, id)

\* byId.get(id)
PartsOf(fks, id) == SelectSeq(fks, LAMBDA fk : fk.id = id)

\* the argument of qPg.addConstraint for one entry of byId
ConstraintFor(tableName, id, parts) ==
    [table |-> tableName,
     fields |-> [k \in 1..Len(parts) |-> parts[k].from],
     type |-> "foreign key",
     name |-> tableName \o "_fk_" \o IntToDigits(id),
     refTable |-> parts[1].table,
     refFields |-> [k \in 1..Len(parts) |-> parts[k].to],
     onUpdate |-> NormalizeAction(parts[1].on_update),
     onDelete |-> NormalizeAction(parts[1].on_delete),
     deferrable |-> "INITIALLY_DEFERRED"]

-----------------------------------------------------------------------------
(* The source database and the empty destination *)

TableName(i) == "t" \o IntToDigits(i)

\* row k of a source table: an id and one loosely typed cell
SourceRow(k) ==
    [id |-> Num(k, 0),
     v |-> IF k % 3 = 1 THEN Str("") ELSE IF k % 3 = 2 THEN Num(1, 0) ELSE Str("0")]

\* what describeTable reports for table i once it is created
ReportedTypes(i) ==
    [id |-> Str("INTEGER"),
     v |-> IF i % 2 = 1 THEN Str("BOOLEAN") ELSE Str("CHARACTER VARYING(255)")]

\* the rows of PRAGMA foreign_key_list for table i: none for the first table, a
\* two-column constraint and a one-column constraint to the first for the others
DefaultFks(i) ==
    IF i = 1 THEN <<>>
    ELSE <<FkRow(0, "id", "id", TableName(1), Str("CASCADE"), Str("RESTRICT")),
           FkRow(0, "v", "v", TableName(1), Str("CASCADE"), Str("RESTRICT")),
           FkRow(1, "v", "id", TableName(1), Null, Str("SET NULL"))>>

\* a source holding n selected tables (in name order, as getSqliteTables returns
\* them and main filters them), table i with counts[i] rows and the foreign keys
\* fks[i]
Source(n, counts, fks) ==
    [tables |-> [i \in 1..n |-> TableName(i)],
     rows |-> [t \in {TableName(i) : i \in 1..n} |->
                LET i == CHOOSE j \in 1..n : TableName(j) = t
                IN [k \in 1..counts[i] |-> SourceRow(k)]],
     types |-> [t \in {TableName(i) : i \in 1..n} |->
                ReportedTypes(CHOOSE j \in 1..n : TableName(j) = t)],
     indexes |-> [t \in {TableName(i) : i \in 1..n} |->
                IF t = TableName(1) THEN {t \o "_v_uq"} ELSE {}],
     fks |-> [t \in {TableName(i) : i \in 1..n} |->
                fks[CHOOSE j \in 1..n : TableName(j) = t]]]

Selected == {src.tables[i] : i \in 1..Len(src.tables)}

Err(op, table, at) == [op |-> op, table |-> table, at |-> at]
NoErr == Err("", "", 0)

CpIdle ==
    [total |-> 0, meta |-> <<>>, offset |-> 0, rows |-> <<>>, coerced |-> <<>>,
     i |-> 0, e |-> NoErr]

LogStart(tables) ==
    [created |-> {}, copyStarted |-> {}, copied |-> {}, fkInvoked |-> {},
     fkDone |-> {},
     counts |-> [t \in tables |-> 0],
     fetches |-> [t \in tables |-> <<>>],
     inserts |-> [t \in tables |-> 0],
     rowTries |-> <<>>,
     failed |-> FALSE]

\* the state of the process when main is called on the source s
Started(s) ==
    /\ src = s
    /\ pg = [tables |-> {}, rows |-> [t \in DOMAIN s.rows |-> <<>>],
             indexes |-> {}, constraints |-> <<>>]
    /\ pc = "sqliteAuth"
    /\ ti = 0
    /\ tableMeta = <<>>
    /\ cp = CpIdle
    /\ fkGroups = <<>>
    /\ err = NoErr
    /\ exitCode = 0
    /\ log = LogStart(DOMAIN s.rows)

SanIdle ==
    /\ sStage = "idle"
    /\ sVal = Undefined
    /\ sKind = "absent"
    /\ sParses = FALSE
    /\ sOut = Undefined
    /\ sOut2 = Undefined
    /\ sRow = [x |-> Undefined]
    /\ sCoerced = [x |-> Undefined]

ClsIdle ==
    /\ cStage = "idle"
    /\ cType = Undefined
    /\ cClass = ""

Init ==
    /\ ADD_FOREIGN_KEYS \in BOOLEAN
    /\ DEBUG_ON_ERROR \in BOOLEAN
    /\ BATCH_SIZE \in 1..MaxBatch
    /\ TREAT_EMPTY_STRING_AS_NULL \in BOOLEAN
    /\ \E n \in 0..MaxTables :
         \E counts \in [1..n -> 0..MaxRows] :
            Started(Source(n, counts, [i \in 1..n |-> DefaultFks(i)]))
    /\ SanIdle
    /\ ClsIdle

-----------------------------------------------------------------------------
(* main and the functions it awaits (src/index.js 233-418) *)

table == src.tables[ti]
NumTables == Len(src.tables)

\* a rejected await: the error propagates to the top-level catch
Throws(e) ==
    /\ pc' = "thrown"
    /\ err' = e
    /\ log' = [log EXCEPT !.failed = TRUE]
    /\ UNCHANGED <<src, pg, ti, tableMeta, cp, fkGroups, exitCode>>

Goto(next) ==
    /\ pc' = next.pc
    /\ ti' = next.ti

At(p, i) == [pc |-> p, ti |-> i]

\* mutant: each table's data is copied right after the table is created
AfterCreate_CopyAtOnce(i) == At("count", i)

\* for (const table of tables) await createPgTableFromSqlite(table); then the copy loop
AfterCreate(i) == IF i < NumTables THEN At("createSync", i + 1) ELSE At("count", 1)

\* for (const table of tables) await copyTableData(table); then if (ADD_FOREIGN_KEYS)
AfterCopy(i) ==
    IF i < NumTables THEN At("count", i + 1)
    ELSE IF ADD_FOREIGN_KEYS THEN At("fkList", 1)
    ELSE At("close", i)

\* for (const table of tables) await addForeignKeysForTable(table); then close
AfterFk(i) == IF i < NumTables THEN At("fkList", i + 1) ELSE At("close", i)

SqliteAuthenticate ==
    /\ pc = "sqliteAuth"
    /\ \/ Throws(Err("sqlite.authenticate", "", 0))
       \/ /\ pc' = "pgAuth"
          /\ UNCHANGED <<src, pg, ti, tableMeta, cp, fkGroups, err, exitCode, log>>
    /\ UNCHANGED <<cfgVars, sanVars, clsVars>>

PgAuthenticate ==
    /\ pc = "pgAuth"
    /\ \/ Throws(Err("pg.authenticate", "", 0))
       \/ /\ pc' = "ensureSchema"
          /\ UNCHANGED <<src, pg, ti, tableMeta, cp, fkGroups, err, exitCode, log>>
    /\ UNCHANGED <<cfgVars, sanVars, clsVars>>

EnsurePgSchema ==
    /\ pc = "ensureSchema"
    /\ \/ Throws(Err("ensurePgSchema", "", 0))
       \/ /\ pc' = "getTables"
          /\ UNCHANGED <<src, pg, ti, tableMeta, cp, fkGroups, err, exitCode, log>>
    /\ UNCHANGED <<cfgVars, sanVars, clsVars>>

\* getSqliteTables, the filter, and the early return when nothing is selected
GetSqliteTables ==
    /\ pc = "getTables"
    /\ \/ Throws(Err("getSqliteTables", "", 0))
       \/ /\ Goto(IF NumTables = 0 THEN At("close", 0) ELSE At("createSync", 1))
          /\ UNCHANGED <<src, pg, tableMeta, cp, fkGroups, err, exitCode, log>>
    /\ UNCHANGED <<cfgVars, sanVars, clsVars>>

\* createPgTableFromSqlite up to Model.sync({ force: true }): the table is dropped
\* if it exists and created empty
CreateSync ==
    /\ pc = "createSync"
    /\ \/ Throws(Err("sync", table, 0))
       \/ /\ pg' = [pg EXCEPT !.tables = @ \cup {table}, !.rows[table] = <<>>]
          /\ pc' = "describe"
          /\ UNCHANGED <<src, ti, tableMeta, cp, fkGroups, err, exitCode, log>>
    /\ UNCHANGED <<cfgVars, sanVars, clsVars>>

\* mutant: the classification is computed but not stored
SetMeta_Forgotten(meta, name, typesByCol) == meta

\* tableMeta.set(name, { typesByCol })
SetMeta(meta, name, typesByCol) ==
    [t \in DOMAIN meta \cup {name} |-> IF t = name THEN typesByCol ELSE meta[t]]

\* tableMeta.get(name) || { typesByCol: {} }
GetMeta(meta, name) == IF name \in DOMAIN meta THEN meta[name] ELSE <<>>

\* describeTable, classification of every column, tableMeta.set
DescribeTable ==
    /\ pc = "describe"
    /\ \/ Throws(Err("describeTable", table, 0))
       \/ /\ tableMeta' = SetMeta(tableMeta, table, TypesByCol(src.types[table]))
          /\ pc' = "indexes"
          /\ UNCHANGED <<src, pg, ti, cp, fkGroups, err, exitCode, log>>
    /\ UNCHANGED <<cfgVars, sanVars, clsVars>>

\* getSqliteIndexes and addIndex for every unique index; createPgTableFromSqlite
\* returns
CreateIndexes ==
    /\ pc = "indexes"
    /\ \/ Throws(Err("addIndex", table, 0))
       \/ /\ pg' = [pg EXCEPT !.indexes = @ \cup src.indexes[table]]
          /\ log' = [log EXCEPT !.created = @ \cup {table}]
          /\ Goto(AfterCreate(ti))
          /\ UNCHANGED <<src, tableMeta, cp, fkGroups, err, exitCode>>
    /\ UNCHANGED <<cfgVars, sanVars, clsVars>>


\* a rejected await after the history has recorded the attempt
ThrowsLogged(e, newLog) ==
    /\ pc' = "thrown"
    /\ err' = e
    /\ log' = [newLog EXCEPT !.failed = TRUE]
    /\ UNCHANGED <<src, pg, ti, tableMeta, cp, fkGroups, exitCode>>

\* copyTableData up to the loop: SELECT COUNT(*), the zero-row return, the read of
\* tableMeta
CountRows ==
    /\ pc = "count"
    /\ LET counted == [log EXCEPT !.copyStarted = @ \cup {table},
                                  !.counts[table] = @ + 1]
           total == Len(src.rows[table])
       IN \/ ThrowsLogged(Err("count", table, 0), counted)
          \/ /\ total = 0
             /\ log' = [counted EXCEPT !.copied = @ \cup {table}]
             /\ Goto(AfterCopy(ti))
             /\ UNCHANGED <<src, pg, tableMeta, cp, fkGroups, err, exitCode>>
          \/ /\ total # 0
             /\ log' = counted
             /\ cp' = [CpIdle EXCEPT !.total = total,
                                     !.meta = GetMeta(tableMeta, table)]
             /\ pc' = "fetch"
             /\ UNCHANGED <<src, pg, ti, tableMeta, fkGroups, err, exitCode>>
    /\ UNCHANGED <<cfgVars, sanVars, clsVars>>

Min(a, b) == IF a < b THEN a ELSE b

\* mutant: the page starts one row too far
Page_OffByOne(rows, limit, offset) ==
    SubSeq(rows, offset + 2, Min(offset + 1 + limit, Len(rows)))

\* SELECT * FROM t LIMIT limit OFFSET offset
Page(rows, limit, offset) == SubSeq(rows, offset + 1, Min(offset + limit, Len(rows)))

\* one page fetched and coerced
FetchPage ==
    /\ pc = "fetch"
    /\ LET fetched == [log EXCEPT !.fetches[table] = Append(@, cp.offset)]
           rows == Page(src.rows[table], BATCH_SIZE, cp.offset)
       IN \/ ThrowsLogged(Err("fetch", table, cp.offset), fetched)
          \/ /\ log' = fetched
             /\ cp' = [cp EXCEPT
                        !.rows = rows,
                        !.coerced = [k \in 1..Len(rows) |->
                            coerceRow(rows[k], cp.meta, TREAT_EMPTY_STRING_AS_NULL, FALSE)]]
             /\ pc' = "bulkInsert"
             /\ UNCHANGED <<src, pg, ti, tableMeta, fkGroups, err, exitCode>>
    /\ UNCHANGED <<cfgVars, sanVars, clsVars>>

\* offset += rows.length
NextOffset(offset, rows) == offset + Len(rows)

\* qPg.bulkInsert of the page: accepted (the loop goes on or copyTableData returns),
\* or rejected (the catch block: rethrow, or the row-by-row fallback)
BulkInsert ==
    /\ pc = "bulkInsert"
    /\ LET tried == [log EXCEPT !.inserts[table] = @ + 1]
           e == Err("bulkInsert", table, cp.offset)
           offset == NextOffset(cp.offset, cp.rows)
       IN \/ /\ pg' = [pg EXCEPT !.rows[table] = @ \o cp.coerced]
             /\ cp' = [cp EXCEPT !.offset = offset]
             /\ IF offset < cp.total
                THEN /\ pc' = "fetch"
                     /\ ti' = ti
                     /\ log' = tried
                ELSE /\ Goto(AfterCopy(ti))
                     /\ log' = [tried EXCEPT !.copied = @ \cup {table}]
             /\ UNCHANGED <<src, tableMeta, fkGroups, err, exitCode>>
          \/ /\ ~DEBUG_ON_ERROR
             /\ pc' = "thrown"
             /\ err' = e
             /\ cp' = [cp EXCEPT !.e = e]
             /\ log' = [tried EXCEPT !.failed = TRUE]
             /\ UNCHANGED <<src, pg, ti, tableMeta, fkGroups, exitCode>>
          \/ /\ DEBUG_ON_ERROR
             /\ pc' = "rowInsert"
             /\ cp' = [cp EXCEPT !.e = e, !.i = 0]
             /\ log' = [tried EXCEPT !.failed = TRUE, !.rowTries = <<>>]
             /\ UNCHANGED <<src, pg, ti, tableMeta, fkGroups, err, exitCode>>
    /\ UNCHANGED <<cfgVars, sanVars, clsVars>>

\* mutant: the fallback rethrows the page's error whatever the row's insert did
RowFailure_Original(e, rowErr) == e

\* catch (rowErr) { ...; throw rowErr; }
RowFailure(e, rowErr) == rowErr

\* mutant: a page whose rows all went in one by one counts as copied
AfterFallback_Resume(e) == [pc |-> "fetch", err |-> NoErr]

\* throw e, after the loop over the page's rows
AfterFallback(e) == [pc |-> "thrown", err |-> e]

\* one turn of the fallback loop: coerced[i] inserted alone
RowInsert ==
    /\ pc = "rowInsert"
    /\ cp.i < Len(cp.coerced)
    /\ \/ /\ pg' = [pg EXCEPT !.rows[table] = Append(@, cp.coerced[cp.i + 1])]
          /\ cp' = [cp EXCEPT !.i = @ + 1]
          /\ log' = [log EXCEPT !.rowTries = Append(@, TRUE)]
          /\ IF cp.i + 1 < Len(cp.coerced)
             THEN UNCHANGED <<pc, err>>
             ELSE /\ pc' = AfterFallback(cp.e).pc
                  /\ err' = AfterFallback(cp.e).err
          /\ UNCHANGED <<src, ti, tableMeta, fkGroups, exitCode>>
       \/ /\ pc' = "thrown"
          /\ err' = RowFailure(cp.e, Err("rowInsert", table, cp.offset + cp.i))
          /\ log' = [log EXCEPT !.rowTries = Append(@, FALSE)]
          /\ UNCHANGED <<src, pg, ti, tableMeta, cp, fkGroups, exitCode>>
    /\ UNCHANGED <<cfgVars, sanVars, clsVars>>

\* addForeignKeysForTable up to the loop over byId
ListForeignKeys ==
    /\ pc = "fkList"
    /\ LET invoked == [log EXCEPT !.fkInvoked = @ \cup {table}]
       IN \/ ThrowsLogged(Err("getSqliteForeignKeys", table, 0), invoked)
          \/ /\ src.fks[table] = <<>>
             /\ log' = [invoked EXCEPT !.fkDone = @ \cup {table}]
             /\ Goto(AfterFk(ti))
             /\ UNCHANGED <<src, pg, tableMeta, cp, fkGroups, err, exitCode>>
          \/ /\ src.fks[table] # <<>>
             /\ log' = invoked
             /\ fkGroups' = GroupIds(src.fks[table])
             /\ pc' = "addConstraint"
             /\ UNCHANGED <<src, pg, ti, tableMeta, cp, err, exitCode>>
    /\ UNCHANGED <<cfgVars, sanVars, clsVars>>

\* qPg.addConstraint for the next entry of byId
AddConstraint ==
    /\ pc = "addConstraint"
    /\ fkGroups # <<>>
    /\ LET id == Head(fkGroups)
       IN \/ Throws(Err("addConstraint", table, id))
          \/ /\ pg' = [pg EXCEPT !.constraints =
                        Append(@, ConstraintFor(table, id, PartsOf(src.fks[table], id)))]
             /\ fkGroups' = Tail(fkGroups)
             /\ IF Tail(fkGroups) # <<>>
                THEN UNCHANGED <<pc, ti, log>>
                ELSE /\ Goto(AfterFk(ti))
                     /\ log' = [log EXCEPT !.fkDone = @ \cup {table}]
             /\ UNCHANGED <<src, tableMeta, cp, err, exitCode>>
    /\ UNCHANGED <<cfgVars, sanVars, clsVars>>

\* sqlite.close(), pg.close(); main returns
Close ==
    /\ pc = "close"
    /\ \/ Throws(Err("close", "", 0))
       \/ /\ pc' = "returned"
          /\ UNCHANGED <<src, pg, ti, tableMeta, cp, fkGroups, err, exitCode, log>>
    /\ UNCHANGED <<cfgVars, sanVars, clsVars>>

\* .catch((err) => { ...; process.exitCode = 1; })
TopLevelCatch ==
    /\ pc = "thrown"
    /\ pc' = "caught"
    /\ exitCode' = 1
    /\ UNCHANGED <<src, pg, ti, tableMeta, cp, fkGroups, err, log>>
    /\ UNCHANGED <<cfgVars, sanVars, clsVars>>

Next ==
    \/ SqliteAuthenticate \/ PgAuthenticate \/ EnsurePgSchema \/ GetSqliteTables
    \/ CreateSync \/ DescribeTable \/ CreateIndexes
    \/ CountRows \/ FetchPage \/ BulkInsert \/ RowInsert
    \/ ListForeignKeys \/ AddConstraint
    \/ Close \/ TopLevelCatch

Spec == Init /\ [][Next]_vars

\* the event loop runs every continuation that is ready
FairSpec == Spec /\ WF_vars(Next)


-----------------------------------------------------------------------------
(* Properties of the run, checked under Spec / FairSpec *)

CreatePcs == {"createSync", "describe", "indexes"}
CopyPcs == {"count", "fetch", "bulkInsert", "rowInsert"}
FkPcs == {"fkList", "addConstraint"}

\* C1: the phases of main are strictly ordered: every selected table is created
\* before any copy starts, every selected table is copied before
\* addForeignKeysForTable is invoked for any table, no constraint exists while a
\* copy runs, and with ADD_FOREIGN_KEYS false no constraint is ever created.
C1_PhasesOrdered ==
    /\ (pc \in CopyPcs \/ log.copyStarted # {}) => log.created = Selected
    /\ (pc \in FkPcs \/ log.fkInvoked # {} \/ pg.constraints # <<>>)
            => log.copied = Selected
    /\ pc \in CreatePcs => (log.copyStarted = {} /\ log.fkInvoked = {})
    /\ pc \in CopyPcs => (pg.constraints = <<>> /\ log.fkInvoked = {})
    /\ ~ADD_FOREIGN_KEYS =>
            (pg.constraints = <<>> /\ log.fkInvoked = {} /\ pc \notin FkPcs)

C1_Witness ==
    /\ pc = "returned" /\ ADD_FOREIGN_KEYS
    /\ NumTables = 2
    /\ log.copied = Selected /\ log.fkDone = Selected
    /\ Len(pg.constraints) = 2

\* C2: when copyTableData reads tableMeta for its table, the cache holds the
\* table's class map as createPgTableFromSqlite wrote it from describeTable; the
\* cache is empty at start, gains an entry only in the create-tables phase, and is
\* not touched in the copy and foreign-key phases.
C2_MetaReadyBeforeCopy ==
    /\ tableMeta = <<>>
    /\ [](pc \in {"fetch", "bulkInsert", "rowInsert"} =>
            /\ table \in DOMAIN tableMeta
            /\ tableMeta[table] = TypesByCol(src.types[table])
            /\ cp.meta = tableMeta[table])
    /\ [][tableMeta' # tableMeta =>
            /\ pc = "describe"
            /\ table \notin DOMAIN tableMeta
            /\ DOMAIN tableMeta' = DOMAIN tableMeta \cup {table}
            /\ \A t \in DOMAIN tableMeta : tableMeta'[t] = tableMeta[t]]_vars

C2_Witness ==
    /\ pc = "bulkInsert" /\ ti = 2
    /\ cp.meta = [id |-> "int", v |-> "other"]
    /\ DOMAIN tableMeta = Selected

BulkFailed == cp.e # NoErr

\* C3 as stated: after a page's bulk insert fails, the error copyTableData raises
\* is the page's bulk-insert error, whatever the single-row inserts did; with the
\* fallback disabled no single-row insert is attempted.
C3_AsStated ==
    (pc = "thrown" /\ BulkFailed) =>
        /\ err = cp.e
        /\ ~DEBUG_ON_ERROR => log.rowTries = <<>>

\* C3 (amended): with the fallback enabled the rows of the page are inserted one
\* at a time, in order, up to the first one the destination rejects: that row's
\* error is raised and the rest of the page is not tried; the page's bulk-insert
\* error is raised only when every row went in alone.  With the fallback disabled
\* the bulk-insert error is raised at once and no single-row insert is attempted.
C3_FallbackRaisesFirstRowError ==
    (pc = "thrown" /\ BulkFailed) =>
        LET n == Len(log.rowTries)
        IN /\ cp.e = Err("bulkInsert", table, cp.offset)
           /\ IF DEBUG_ON_ERROR
              THEN /\ n >= 1
                   /\ \A k \in 1..(n - 1) : log.rowTries[k]
                   /\ IF log.rowTries[n]
                      THEN n = Len(cp.coerced) /\ err = cp.e
                      ELSE err = Err("rowInsert", table, cp.offset + n - 1)
              ELSE n = 0 /\ err = cp.e

C3_Witness ==
    /\ pc = "thrown" /\ BulkFailed /\ DEBUG_ON_ERROR
    /\ log.rowTries = <<TRUE, FALSE>>
    /\ err.op = "rowInsert" /\ err.at = cp.offset + 1

\* C4: any failure is fatal: once an operation has failed no page is fetched or
\* bulk-inserted, no table is created or copied, no constraint is added (only the
\* failing page's rows may still go in one by one); the error reaches the
\* top-level handler and the exit status is non-zero; main never returns after a
\* failed page insert.
C4_FailureIsFatal ==
    /\ [](pc = "returned" => (~log.failed /\ exitCode = 0))
    /\ [](pc = "caught" => (log.failed /\ exitCode = 1))
    /\ [][log.failed =>
            /\ log'.fetches = log.fetches
            /\ log'.inserts = log.inserts
            /\ log'.counts = log.counts
            /\ log'.created = log.created
            /\ log'.copyStarted = log.copyStarted
            /\ log'.copied = log.copied
            /\ log'.fkInvoked = log.fkInvoked
            /\ pg'.tables = pg.tables
            /\ pg'.indexes = pg.indexes
            /\ pg'.constraints = pg.constraints
            /\ tableMeta' = tableMeta
            /\ pg'.rows # pg.rows =>
                    /\ pc = "rowInsert"
                    /\ pg'.rows = [pg.rows EXCEPT ![table] =
                                      Append(@, cp.coerced[cp.i + 1])]]_vars
    /\ (log.failed ~> (pc = "caught" /\ exitCode = 1))

C4_Witness ==
    /\ pc = "caught" /\ exitCode = 1 /\ log.failed
    /\ DEBUG_ON_ERROR /\ err.op = "bulkInsert"
    /\ log.rowTries = <<TRUE, TRUE>>
    /\ NumTables = 2 /\ ti = 1 /\ log.copied = {}

\* C5: a table of N rows copied with page size B >= 1 into a destination that
\* accepts every insert takes one count query, ceil(N/B) fetches at offsets
\* 0, B, 2B, ... and ceil(N/B) bulk inserts; every source row arrives exactly
\* once, coerced by the table's cached class map; offsets strictly increase;
\* N = 0 takes no fetch and no insert.
C5_PagesCoverEveryRowOnce ==
    /\ \A t \in log.copied :
        LET N == Len(src.rows[t])
            pages == (N + BATCH_SIZE - 1) \div BATCH_SIZE
        IN /\ log.counts[t] = 1
           /\ log.fetches[t] = [p \in 1..pages |-> (p - 1) * BATCH_SIZE]
           /\ log.inserts[t] = pages
           /\ pg.rows[t] = [k \in 1..N |->
                coerceRow(src.rows[t][k], GetMeta(tableMeta, t),
                          TREAT_EMPTY_STRING_AS_NULL, FALSE)]
    /\ \A t \in DOMAIN log.fetches :
        \A p, q \in 1..Len(log.fetches[t]) :
            p < q => log.fetches[t][p] < log.fetches[t][q]

C5_Witness ==
    /\ TableName(1) \in log.copied
    /\ Len(src.rows[TableName(1)]) = 3 /\ BATCH_SIZE = 2
    /\ log.fetches[TableName(1)] = <<0, 2>>
    /\ Len(pg.rows[TableName(1)]) = 3

-----------------------------------------------------------------------------
(* Foreign-key creation over many shapes of PRAGMA foreign_key_list *)

FkActions ==
    <<Null, Str("RESTRICT"), Str("CASCADE"), Str("NO ACTION"), Str("SET NULL"),
      Str("SET DEFAULT")>>

RECURSIVE SeqsUpTo(_, _)
SeqsUpTo(S, n) ==
    IF n = 0 THEN {<<>>}
    ELSE LET shorter == SeqsUpTo(S, n - 1)
         IN shorter \cup {Append(q, x) : q \in shorter, x \in S}

\* rows of up to two constraints over the columns a and b, in any order; the rows
\* of one constraint carry the same actions, as SQLite reports them
FkLists ==
    {[k \in 1..Len(q) |->
        FkRow(q[k][1], q[k][2], q[k][2] \o "_ref", "parent",
              FkActions[IF q[k][1] = 0 THEN a ELSE (a % Len(FkActions)) + 1],
              FkActions[IF q[k][1] = 0 THEN (a % Len(FkActions)) + 1 ELSE a])] :
        q \in SeqsUpTo({0, 1} \X {"a", "b"}, MaxFkRows), a \in 1..Len(FkActions)}

InitFk ==
    /\ ADD_FOREIGN_KEYS = TRUE
    /\ DEBUG_ON_ERROR = TRUE
    /\ BATCH_SIZE = 1
    /\ TREAT_EMPTY_STRING_AS_NULL = TRUE
    /\ \E fks \in FkLists : Started(Source(1, <<1>>, <<fks>>))
    /\ SanIdle
    /\ ClsIdle

FkSpec == InitFk /\ [][Next]_vars

\* the action the destination is given for a source action
ExpectedAction(a) ==
    IF a = Null THEN "NO ACTION"
    ELSE IF a = Str("RESTRICT") THEN "NO ACTION"
    ELSE a.s

\* C6: addForeignKeysForTable issues exactly one constraint per distinct source
\* constraint id, over all of the group's (from, to) pairs in source order, named
\* '<table>_fk_<id>', initially deferred, with RESTRICT (and a missing action)
\* turned into NO ACTION and every other action unchanged.
C6_OneConstraintPerId ==
    \A t \in log.fkDone :
        LET fks == src.fks[t]
            ids == {fks[k].id : k \in 1..Len(fks)}
            issued == SelectSeq(pg.constraints, LAMBDA c : c.table = t)
        IN /\ Len(issued) = Cardinality(ids)
           /\ \A id \in ids :
                LET group == SelectSeq(fks, LAMBDA r : r.id = id)
                IN \E j \in 1..Len(issued) :
                    /\ issued[j].name = t \o "_fk_" \o Char(DigitChars, id + 1)
                    /\ issued[j].fields = [k \in 1..Len(group) |-> group[k].from]
                    /\ issued[j].refFields = [k \in 1..Len(group) |-> group[k].to]
                    /\ issued[j].refTable = group[1].table
                    /\ issued[j].deferrable = "INITIALLY_DEFERRED"
                    /\ issued[j].onUpdate = ExpectedAction(group[1].on_update)
                    /\ issued[j].onDelete = ExpectedAction(group[1].on_delete)

C6_Witness ==
    /\ pc = "returned"
    /\ log.fkDone = {TableName(1)}
    /\ Len(src.fks[TableName(1)]) = 3
    /\ src.fks[TableName(1)][1].id = 0 /\ src.fks[TableName(1)][2].id = 1
    /\ src.fks[TableName(1)][3].id = 0
    /\ src.fks[TableName(1)][1].on_delete = Str("RESTRICT")
    /\ Len(pg.constraints) = 2
    /\ pg.constraints[1].fields = <<"a", "b">>
    /\ pg.constraints[1].onDelete = "NO ACTION"


-----------------------------------------------------------------------------
(* Sanitizer harness: one cell value, alone and inside a row, through the     *)
(* coercion of copyTableData                                                  *)

Alphabet == {"0", "1", "9", ".", "-", " ", "e"}

RECURSIVE StringsUpTo(_)
StringsUpTo(n) ==
    IF n = 0 THEN {""}
    ELSE LET shorter == StringsUpTo(n - 1)
         IN shorter \cup {s \o c : s \in shorter, c \in Alphabet}

SampleStrings ==
    {"true", "false", "yes", "no", "t", "f", "y", "n", "Y", "N", "TRUE", " No ",
     "maybe", "  ", "\t", "42.9", "3.14", "19.990", " 19.990 ", "-1.5e-7", "1E5",
     "+5", ".5", "5.", "0x1f", "Infinity", "-Infinity", "1e999", "1e-999",
     "2024-01-02", "1700000000", "1700000000000", "999999999", "1000000000",
     "900000000000", "1000000000000", "2000000000000", "4900000000000",
     "5000000000000", "8640000000000000", "8650000000000000",
     "10000000000000000", "0000"}

NumMants == {0 - 17, 0 - 1, 0, 1, 5, 17, 429, 864, 865, 999999999}

NumInputs ==
    {Num(m, e) : m \in NumMants, e \in (0 - MaxPow10)..MaxPow10}
        \cup {NaN, PosInf, NegInf}

InputValues ==
    {Null, Undefined, Bool(TRUE), Bool(FALSE), InvalidDate,
     DateMs(Norm(17, 11)), DateParsed("2024-01-02")}
        \cup NumInputs
        \cup {Str(s) : s \in StringsUpTo(MaxLen) \cup SampleStrings}

Kinds == Classes \cup {"other", "absent"}

\* the row (2, "", 0, "") of a table (id, name, active, created), with one more
\* column x holding the cell under test
RowWith(v) ==
    [id |-> Num(2, 0), name |-> Str(""), active |-> Num(0, 0), created |-> Str(""),
     x |-> v]

BaseTypes == [id |-> "int", name |-> "other", active |-> "boolean", created |-> "date"]

TypesWith(kind) ==
    IF kind = "absent" THEN BaseTypes
    ELSE [c \in DOMAIN BaseTypes \cup {"x"} |-> IF c = "x" THEN kind ELSE BaseTypes[c]]

\* no run of main: the process state of the harnesses
RunIdle ==
    /\ ADD_FOREIGN_KEYS = FALSE
    /\ DEBUG_ON_ERROR = FALSE
    /\ BATCH_SIZE = 1
    /\ src = Source(0, <<>>, <<>>)
    /\ pg = [tables |-> {}, rows |-> <<>>, indexes |-> {}, constraints |-> <<>>]
    /\ pc = "idle"
    /\ ti = 0
    /\ tableMeta = <<>>
    /\ cp = CpIdle
    /\ fkGroups = <<>>
    /\ err = NoErr
    /\ exitCode = 0
    /\ log = LogStart({})

InitSan ==
    /\ sStage = "in"
    /\ sVal \in InputValues
    /\ sKind \in Kinds
    /\ TREAT_EMPTY_STRING_AS_NULL \in BOOLEAN
    /\ sParses \in BOOLEAN
    /\ sOut = Undefined
    /\ sOut2 = Undefined
    /\ sRow = RowWith(sVal)
    /\ sCoerced = [x |-> Undefined]
    /\ RunIdle
    /\ ClsIdle

\* rows.map((row) => ...) on the row
CoerceRow ==
    /\ sStage = "in"
    /\ sCoerced' = coerceRow(sRow, TypesWith(sKind), TREAT_EMPTY_STRING_AS_NULL, sParses)
    /\ sStage' = "row"
    /\ UNCHANGED <<sVal, sKind, sParses, sOut, sOut2, sRow>>
    /\ UNCHANGED <<cfgVars, runVars, clsVars>>

\* the sanitizer of the cell's class on the cell
Sanitize ==
    /\ sStage = "row"
    /\ sOut' = sanitize(sKind, sVal, TREAT_EMPTY_STRING_AS_NULL, sParses)
    /\ sStage' = "once"
    /\ UNCHANGED <<sVal, sKind, sParses, sOut2, sRow, sCoerced>>
    /\ UNCHANGED <<cfgVars, runVars, clsVars>>

\* the same sanitizer on its own result
SanitizeAgain ==
    /\ sStage = "once"
    /\ sOut2' = sanitize(sKind, sOut, TREAT_EMPTY_STRING_AS_NULL, sParses)
    /\ sStage' = "twice"
    /\ UNCHANGED <<sVal, sKind, sParses, sOut, sRow, sCoerced>>
    /\ UNCHANGED <<cfgVars, runVars, clsVars>>

NextSan == CoerceRow \/ Sanitize \/ SanitizeAgain

SanSpec == InitSan /\ [][NextSan]_vars


-----------------------------------------------------------------------------
(* Properties of the sanitizers, checked under SanSpec *)

IsBlank(s) == \A i \in 1..Len(s) : IsSpaceChar(Char(s, i))

Coerced == sStage \in {"row", "once", "twice"}
Sanitized == sStage \in {"once", "twice"}

\* C7: with the empty-string-null policy enabled, the per-row coercion maps a
\* whitespace-only (or empty) string cell to null under every class date, boolean,
\* int, float, decimal, and leaves the cell of a column classified 'other' or absent
\* from the class map exactly as read; the row (2, "", 0, "") under
\* {id:int, name:other, active:boolean, created:date} becomes (2, "", false, null).
C7_BlankToNullPerClass ==
    (Coerced /\ TREAT_EMPTY_STRING_AS_NULL) =>
        /\ (sVal.t = "string" /\ IsBlank(sVal.s) /\ sKind \in Classes)
                => sCoerced.x = Null
        /\ sKind \in {"other", "absent"} => sCoerced.x = sVal
        /\ sCoerced.id = Num(2, 0)
        /\ sCoerced.name = Str("")
        /\ sCoerced.active = Bool(FALSE)
        /\ sCoerced.created = Null
        /\ DOMAIN sCoerced = DOMAIN sRow

C7_Witness ==
    /\ Coerced /\ TREAT_EMPTY_STRING_AS_NULL
    /\ sVal = Str("  ") /\ sKind = "int"
    /\ sCoerced.x = Null /\ sCoerced.created = Null /\ sCoerced.name = Str("")

\* a number with no fractional part
IsInteger(v) == IsFinite(v) /\ v.e >= 0

\* C8: every sanitizer is idempotent, sanitize(C, sanitize(C, v)) = sanitize(C, v),
\* and fixes canonical values: null under every class, a boolean under boolean, an
\* integer under int, a finite number under float, and a string in the strict
\* decimal form with no surrounding whitespace under decimal.
C8_SanitizerIdempotent ==
    /\ (sStage = "twice" /\ sKind \in Classes) => sOut2 = sOut
    /\ (Sanitized /\ sKind \in Classes) =>
        /\ sVal = Null => sOut = Null
        /\ (sKind = "boolean" /\ sVal.t = "boolean") => sOut = sVal
        /\ (sKind = "int" /\ IsInteger(sVal)) => sOut = sVal
        /\ (sKind = "float" /\ IsFinite(sVal)) => sOut = sVal
        /\ (sKind = "decimal" /\ sVal.t = "string" /\ DecimalPattern(sVal.s))
                => sOut = sVal

C8_Witness ==
    /\ sStage = "twice" /\ sKind = "decimal"
    /\ sVal = Str("19.990") /\ sOut = Str("19.990") /\ sOut2 = Str("19.990")

\* the number a date cell denotes: the cell itself, or the number an all-digit
\* string spells
IsNumeric(v) == v.t = "number" \/ isAllDigitsStr(v)
NumericOf(v) == IF v.t = "number" THEN v ELSE ToNumberStr(v.s)
\* the timestamp n milliseconds after the epoch (whole milliseconds)
Timestamp(n) == DateMs(DecTrunc(DecOf(n)))
InTimeRange(n) ==
    /\ IsFinite(n)
    /\ NumGE(n, Num(0 - MaxTime.m, MaxTime.e))
    /\ NumGE(Num(MaxTime.m, MaxTime.e), n)

\* C9 as stated: n >= 1e12 is taken as milliseconds AND n in [1e9, 5e12) is taken
\* as seconds, one well-defined result for every n (read, in the claim's favour,
\* over the n whose timestamp exists).
C9_AsStated ==
    (Sanitized /\ sKind = "date" /\ IsNumeric(sVal) /\ InTimeRange(NumericOf(sVal))) =>
        LET n == NumericOf(sVal)
        IN /\ NumGE(n, MsEpochFrom) => sOut = Timestamp(n)
           /\ (NumGE(n, SecEpochFrom) /\ NumLT(n, SecEpochBelow))
                => sOut = Timestamp(Times1000(n))
           /\ n = Num(0, 0) => sOut = Null

\* C9 (amended): the rules apply in order, first match wins: 0 -> null;
\* n >= 1e12 -> new Date(n), the timestamp n ms (an invalid date beyond 8.64e15);
\* 1e9 <= n < 1e12 -> the timestamp n*1000 ms; every other number -> the generic
\* new Date(n), null when that is invalid.
C9_DateOfNumberFirstMatch ==
    (Sanitized /\ sKind = "date" /\ IsNumeric(sVal)) =>
        LET n == NumericOf(sVal)
        IN sOut =
            IF n = Num(0, 0) THEN Null
            ELSE IF NumGE(n, MsEpochFrom)
                 THEN (IF InTimeRange(n) THEN Timestamp(n) ELSE InvalidDate)
            ELSE IF NumGE(n, SecEpochFrom) THEN Timestamp(Times1000(n))
            ELSE IF InTimeRange(n) THEN Timestamp(n)
            ELSE Null

C9_Witness ==
    /\ Sanitized /\ sKind = "date"
    /\ sVal = Str("2000000000000")
    /\ sOut = DateMs(Norm(2, 12))


-----------------------------------------------------------------------------
(* Classifier harness: classifyPgType over destination type names *)

Words ==
    {"timestamp", "date", "time", "boolean", "double", "real", "float", "numeric",
     "decimal", "int", "x", " "}

RECURSIVE WordStrings(_)
WordStrings(n) ==
    IF n = 0 THEN {""}
    ELSE LET shorter == WordStrings(n - 1)
         IN shorter \cup {s \o w : s \in shorter, w \in Words}

\* type names PostgreSQL reports through describeTable, and a few in other cases
ReportedTypeNames ==
    {"INTEGER", "BIGINT", "SMALLINT", "TEXT", "BYTEA", "UUID", "BOOLEAN", "DATE",
     "CHARACTER VARYING(255)", "TIMESTAMP WITH TIME ZONE", "TIME WITHOUT TIME ZONE",
     "DOUBLE PRECISION", "REAL", "NUMERIC", "NUMERIC(10,2)", "INTERVAL", "POINT",
     "USER-DEFINED", "Date", "daterange", "Float8", "int4range"}

TypeInputs ==
    {Null, Undefined}
        \cup {Str(s) : s \in WordStrings(MaxWords) \cup ReportedTypeNames}

InitCls ==
    /\ cStage = "in"
    /\ cType \in TypeInputs
    /\ cClass = ""
    /\ TREAT_EMPTY_STRING_AS_NULL = TRUE
    /\ RunIdle
    /\ SanIdle

Classify ==
    /\ cStage = "in"
    /\ cClass' = classifyPgType(cType)
    /\ cStage' = "done"
    /\ UNCHANGED <<cType, cfgVars, runVars, sanVars>>

\* the next entry of desc is classified
ClassifyNext ==
    /\ cStage = "done"
    /\ \E next \in {Str(s) : s \in ReportedTypeNames} :
        /\ cType' = next
        /\ cClass' = classifyPgType(next)
    /\ UNCHANGED <<cStage, cfgVars, runVars, sanVars>>

NextCls == Classify \/ ClassifyNext

ClsSpec == InitCls /\ [][NextCls]_vars

Lowered == toLowerCase(IF cType.t = "string" THEN cType.s ELSE "")
DateMarker ==
    includes(Lowered, "timestamp") \/ Lowered = "date" \/ startsWith(Lowered, "time")
BooleanMarker == includes(Lowered, "boolean")
FloatMarker ==
    includes(Lowered, "double") \/ includes(Lowered, "real") \/ includes(Lowered, "float")
DecimalMarker == includes(Lowered, "numeric") \/ includes(Lowered, "decimal")
IntMarker == includes(Lowered, "int")

\* C10: classifyPgType is total and applies its rules in priority order, first
\* match wins: date, then boolean, then float, then decimal, then int, otherwise
\* other; so a name holding 'int' and a float or decimal marker is never int, and a
\* name matching nothing (an empty or missing name too) is other.
C10_ClassifyFirstMatchWins ==
    cStage = "done" =>
        /\ cClass \in Classes \cup {"other"}
        /\ cClass = "date" <=> DateMarker
        /\ cClass = "boolean" <=> (~DateMarker /\ BooleanMarker)
        /\ cClass = "float" <=> (~DateMarker /\ ~BooleanMarker /\ FloatMarker)
        /\ cClass = "decimal" <=>
                (~DateMarker /\ ~BooleanMarker /\ ~FloatMarker /\ DecimalMarker)
        /\ cClass = "int" <=>
                (~DateMarker /\ ~BooleanMarker /\ ~FloatMarker /\ ~DecimalMarker
                    /\ IntMarker)
        /\ (IntMarker /\ (FloatMarker \/ DecimalMarker)) => cClass # "int"
        /\ cType \in {Null, Undefined, Str("")} => cClass = "other"

C10_Witness ==
    /\ cStage = "done"
    /\ cType = Str("numericint")
    /\ cClass = "decimal"

=============================================================================
